---- MODULE Spec2Model ----
(* A model of the EvoMind dual-brain service: the graph store behind             *)
(* GraphManager (src/core/brain.py), the turn pipeline DualBrain.think and       *)
(* the two HTTP handlers of src/core/main.py that feed it.                       *)
(*                                                                               *)
(* Text is a sequence of tokens; a token stands for an indivisible run of        *)
(* characters ("A", ",", "U7535" for the character with that code point).        *)
(* Substring tests of the code (Python `in`, Cypher CONTAINS) are contiguous     *)
(* subsequence tests on tokens.                                                  *)
EXTENDS Naturals, Integers, Sequences, FiniteSets, TLC

\* ------------------------------------------------------------------ text

\* Python `sub in s` on str, Cypher `s CONTAINS sub`.
Contains(s, sub) ==
    \E i \in 0..(Len(s) - Len(sub)) : SubSeq(s, i + 1, i + Len(sub)) = sub

RECURSIVE Concat(_)
\* The concatenation of a sequence of sequences.
Concat(ss) ==
    IF ss = <<>> THEN <<>> ELSE Head(ss) \o Concat(Tail(ss))

\* The first n elements of a sequence (all of it when shorter).
Take(s, n) ==
    IF Len(s) <= n THEN s ELSE SubSeq(s, 1, n)

\* ----------------------------------------------------------- JSON values
\* What json.loads returns and what the graph store holds as properties.

JNull == [k |-> "null"]
JStr(s) == [k |-> "str", s |-> s]
JNum(n) == [k |-> "num", n |-> n]
JList(q) == [k |-> "list", items |-> q]
JObj(f) == [k |-> "obj", fields |-> f]

\* Python truthiness (`if v`, `not v`).
Truthy(v) ==
    CASE v.k = "null" -> FALSE
      [] v.k = "str" -> v.s # <<>>
      [] v.k = "num" -> v.n # 0
      [] v.k = "list" -> v.items # <<>>
      [] v.k = "obj" -> DOMAIN v.fields # {}

\* dict.get(key, default)
Get(obj, key, default) ==
    IF key \in DOMAIN obj.fields THEN obj.fields[key] ELSE default

\* ---------------------------------------------------- GraphManager: ids

\* hashlib.md5(name.encode('utf-8')).hexdigest()[:8] of the names the model uses
\* (the digests are the real ones; "e11363" and "e91516" share their first
\* eight hex digits).
md5_8(name) ==
    CASE name = <<"A">> -> "7fc56270"
      [] name = <<"B">> -> "9d5ed678"
      [] name = <<"A", "B">> -> "b86fc6b0"
      [] name = <<>> -> "d41d8cd9"
      [] name = <<"e11363">> -> "e114927a"
      [] name = <<"e91516">> -> "e114927a"

\* name.encode raises AttributeError unless name is a str.
CanEncode(name) == name.k = "str"

\* A variant: the name itself as id, no digest.
generate_id_Identity(name) == <<"node_", name.s>>

\* GraphManager._generate_id
generate_id(name) == <<"node_", md5_8(name.s)>>

\* ------------------------------------------------- GraphManager: colours

colors ==
    [orange |-> "#ff9900", pink |-> "#ff66cc", blue |-> "#66ccff",
     cyan |-> "#00cc99", purple |-> "#9966ff", dark_blue |-> "#4d4dff",
     grey |-> "#808080", default |-> "#cccccc"]

\* The keyword table of _assign_color in the order of the dict literal; a
\* non-ASCII key is spelt by the code points of its characters.
mapping_rules ==
 << << <<"Person">>, "pink" >>,
    << <<"U4EBA">>, "pink" >>,
    << <<"U4EBA", "U7269">>, "pink" >>,
    << <<"U7528", "U6237">>, "pink" >>,
    << <<"U6F14", "U5458">>, "pink" >>,
    << <<"U5BFC", "U6F14">>, "pink" >>,
    << <<"U5F00", "U53D1", "U8005">>, "pink" >>,
    << <<"U521B", "U59CB", "U4EBA">>, "pink" >>,
    << <<"CEO">>, "pink" >>,
    << <<"U4E13", "U5BB6">>, "pink" >>,
    << <<"U4F5C", "U8005">>, "pink" >>,
    << <<"Movie">>, "blue" >>,
    << <<"U7535", "U5F71">>, "blue" >>,
    << <<"U5F71", "U7247">>, "blue" >>,
    << <<"U4F5C", "U54C1">>, "blue" >>,
    << <<"U4E66", "U7C4D">>, "blue" >>,
    << <<"U5C0F", "U8BF4">>, "blue" >>,
    << <<"U7535", "U89C6", "U5267">>, "blue" >>,
    << <<"Concept">>, "orange" >>,
    << <<"U6982", "U5FF5">>, "orange" >>,
    << <<"U672F", "U8BED">>, "orange" >>,
    << <<"U5B9A", "U4E49">>, "orange" >>,
    << <<"Technology">>, "cyan" >>,
    << <<"U6280", "U672F">>, "cyan" >>,
    << <<"U79D1", "U6280">>, "cyan" >>,
    << <<"U5DE5", "U5177">>, "cyan" >>,
    << <<"U8BED", "U8A00">>, "cyan" >>,
    << <<"Location">>, "purple" >>,
    << <<"U5730", "U70B9">>, "purple" >>,
    << <<"U57CE", "U5E02">>, "purple" >>,
    << <<"U56FD", "U5BB6">>, "purple" >>,
    << <<"U5730", "U5740">>, "purple" >>,
    << <<"Company">>, "dark_blue" >>,
    << <<"U516C", "U53F8">>, "dark_blue" >>,
    << <<"U4F01", "U4E1A">>, "dark_blue" >>,
    << <<"U673A", "U6784">>, "dark_blue" >>,
    << <<"U54C1", "U724C">>, "dark_blue" >>,
    << <<"U96C6", "U56E2">>, "dark_blue" >>,
    << <<"Date">>, "grey" >>,
    << <<"U65F6", "U95F4">>, "grey" >>,
    << <<"U65E5", "U671F">>, "grey" >>,
    << <<"U5E74", "U4EFD">>, "grey" >>,
    << <<"U5E74", "U4EE3">>, "grey" >> >>

\* The positions of mapping_rules whose key occurs in group.
RuleHits(group) ==
    {i \in DOMAIN mapping_rules : Contains(group, mapping_rules[i][1])}

\* GraphManager._assign_color; group is a JSON value (a str or null).
assign_color(group) ==
    IF ~Truthy(group) THEN colors["default"]
    ELSE IF \E i \in DOMAIN mapping_rules : mapping_rules[i][1] = group.s
         THEN colors[mapping_rules[CHOOSE i \in DOMAIN mapping_rules :
                                       mapping_rules[i][1] = group.s][2]]
    ELSE IF RuleHits(group.s) # {}
         THEN colors[mapping_rules[CHOOSE i \in RuleHits(group.s) :
                                       \A j \in RuleHits(group.s) : i <= j][2]]
    ELSE colors["default"]

\* ------------------------------------------------------ the graph store
\* A store is [nodes, rels]: the Entity nodes in creation order, each
\* [id, name, group, color] (JSON values; a property set to null is absent),
\* and the RELATED relationships in creation order, each [start, end, name]
\* with start and end positions in nodes. Two nodes may carry the same id and
\* two relationships the same key: nothing in the store forbids it.

EmptyStore == [nodes |-> <<>>, rels |-> <<>>]

\* The positions of the nodes matched by (n:Entity {id: $id}).
MatchId(st, id) == {i \in DOMAIN st.nodes : st.nodes[i].id = id}

\* A variant: CREATE in place of MERGE, a node on every statement.
CreateEntity(st, node) ==
    [st EXCEPT !.nodes = Append(@, node)]

\* A variant: on a match the statement sets name and group but not color.
MergeEntity_KeepsColor(st, node) ==
    IF MatchId(st, node.id) = {}
    THEN [st EXCEPT !.nodes = Append(@, node)]
    ELSE [st EXCEPT !.nodes =
              [i \in DOMAIN st.nodes |->
                  IF st.nodes[i].id = node.id
                  THEN [node EXCEPT !.color = st.nodes[i].color]
                  ELSE st.nodes[i]]]

\* MERGE (n:Entity {id: $id}) SET n.name = $name, n.group = $group,
\* n.color = $color -- one auto-commit statement.
MergeEntity(st, node) ==
    IF MatchId(st, node.id) = {}
    THEN [st EXCEPT !.nodes = Append(@, node)]
    ELSE [st EXCEPT !.nodes =
              [i \in DOMAIN st.nodes |->
                  IF st.nodes[i].id = node.id THEN node ELSE st.nodes[i]]]

\* The (start, end) pairs matched by (s:Entity {id: $sid}), (t:Entity {id: $tid}),
\* in store order.
MatchPairs(st, sid, tid) ==
    LET n == Len(st.nodes)
        all == [q \in 1..(n * n) |-> <<((q - 1) \div n) + 1, ((q - 1) % n) + 1>>]
    IN SelectSeq(all, LAMBDA p : st.nodes[p[1]].id = sid /\ st.nodes[p[2]].id = tid)

HasRel(st, p, rel) ==
    \E r \in DOMAIN st.rels : st.rels[r] = [start |-> p[1], end |-> p[2], name |-> rel]

\* A variant: CREATE in place of MERGE, an edge on every statement.
CreateRelated(st, sid, tid, rel) ==
    LET ps == MatchPairs(st, sid, tid)
    IN [st EXCEPT !.rels =
           @ \o [q \in 1..Len(ps) |-> [start |-> ps[q][1], end |-> ps[q][2], name |-> rel]]]

\* MATCH (s:Entity {id: $sid}), (t:Entity {id: $tid})
\* MERGE (s)-[r:RELATED {name: $rel}]->(t) -- one auto-commit statement: for
\* every matched pair the relationship is created unless it is there; no
\* matched pair, nothing written.
MergeRelated(st, sid, tid, rel) ==
    LET ps == SelectSeq(MatchPairs(st, sid, tid), LAMBDA p : ~HasRel(st, p, rel))
    IN [st EXCEPT !.rels =
           @ \o [q \in 1..Len(ps) |-> [start |-> ps[q][1], end |-> ps[q][2], name |-> rel]]]

\* ------------------------------------------- GraphManager.search_subgraph

LIMIT == 30

\* OPTIONAL MATCH (n)-[r]-(m) for the node at position i: one row per
\* relationship that starts or ends at n (m the other end), one row of nulls
\* when there is none.
RowsOfNode(st, i) ==
    LET inc == SelectSeq([r \in DOMAIN st.rels |-> r],
                         LAMBDA r : st.rels[r].start = i \/ st.rels[r].end = i)
    IN IF inc = <<>>
       THEN << [n |-> st.nodes[i].name, r |-> JNull, m |-> JNull] >>
       ELSE [q \in 1..Len(inc) |->
                LET e == st.rels[inc[q]]
                IN [n |-> st.nodes[i].name, r |-> e.name,
                    m |-> st.nodes[IF e.start = i THEN e.end ELSE e.start].name]]

\* UNWIND $keywords AS kw MATCH (n:Entity) WHERE n.name CONTAINS kw
\* OPTIONAL MATCH (n)-[r]-(m) RETURN n.name, r.name, m.name, before the LIMIT.
\* Rows come keyword by keyword, node by node, relationship by relationship.
MatchRows(st, keywords) ==
    Concat([q \in DOMAIN keywords |->
        Concat([i \in DOMAIN st.nodes |->
            IF Contains(st.nodes[i].name.s, keywords[q])
            THEN RowsOfNode(st, i) ELSE <<>>])])

\* A variant: the query without its LIMIT.
QueryNoLimit(st, keywords) == MatchRows(st, keywords)

\* The query of search_subgraph: the rows cut by LIMIT 30.
Query(st, keywords) == Take(MatchRows(st, keywords), LIMIT)

\* The fact line of one record.
Fact(record) ==
    IF Truthy(record.r) /\ Truthy(record.m)
    THEN record.n.s \o <<" U7684U5173U7CFBU662F [">> \o record.r.s
             \o <<"] U5BF9U8C61U662F ">> \o record.m.s
    ELSE <<"U5B9EU4F53: ">> \o record.n.s

RECURSIVE CollectFacts(_, _, _)
\* The loop over the result: context_texts after the records from position i,
\* seen being the facts appended so far.
CollectFacts(records, i, context_texts) ==
    IF i > Len(records) THEN context_texts
    ELSE LET fact == Fact(records[i])
         IN CollectFacts(records, i + 1,
                IF \E q \in DOMAIN context_texts : context_texts[q] = fact
                THEN context_texts ELSE Append(context_texts, fact))

\* A variant: the loop without the seen set.
CollectFactsNoSeen(records, i, context_texts) ==
    [q \in DOMAIN records |-> Fact(records[q])]

RECURSIVE Join(_)
\* "\n".join(lines); the newline is the token "LF".
Join(lines) ==
    IF lines = <<>> THEN <<>>
    ELSE IF Len(lines) = 1 THEN lines[1]
    ELSE lines[1] \o <<"LF">> \o Join(Tail(lines))

RECURSIVE Split(_, _)
\* str.split(sep) for a one-token separator.
Split(s, sep) ==
    IF \A i \in DOMAIN s : s[i] # sep THEN <<s>>
    ELSE LET i == CHOOSE j \in DOMAIN s : s[j] = sep /\ \A h \in 1..(j - 1) : s[h] # sep
         IN <<SubSeq(s, 1, i - 1)>> \o Split(SubSeq(s, i + 1, Len(s)), sep)

\* A variant: no early return on an empty keyword list.
SkipsQuery_Never(keywords) == FALSE

\* `if not keywords: return ""`: the store is not queried.
SkipsQuery(keywords) == keywords = <<>>

\* GraphManager.search_subgraph on a store that answers the query: the
\* returned context.
search_subgraph(st, keywords) ==
    IF SkipsQuery(keywords) THEN <<>>
    ELSE Join(CollectFacts(Query(st, keywords), 1, <<>>))

\* The fact lines of a context: none for the empty string.
FactLines(context) ==
    IF context = <<>> THEN <<>> ELSE Split(context, "LF")

\* --------------------------------------------- GraphManager.update_graph

RECURSIVE SetToSeq(_)
SetToSeq(S) ==
    IF S = {} THEN <<>>
    ELSE LET e == CHOOSE e \in S : TRUE IN <<e>> \o SetToSeq(S \ {e})

\* `for item in v` raises TypeError unless v is a list, a str or a dict.
Iterable(v) == v.k \in {"list", "str", "obj"}

\* What `for item in v` yields: the items of a list, the characters of a str,
\* the keys of a dict.
Items(v) ==
    CASE v.k = "list" -> v.items
      [] v.k = "str" -> [i \in DOMAIN v.s |-> JStr(<<v.s[i]>>)]
      [] v.k = "obj" -> [i \in 1..Cardinality(DOMAIN v.fields) |->
                            JStr(<<SetToSeq(DOMAIN v.fields)[i]>>)]

\* item.get('type', 'Concept')
GroupOf(item) == Get(item, "type", JStr(<<"Concept">>))

\* One pass of the node loop on item: "skip" (the continue), "raise" (an
\* exception leaves update_graph: name.encode on a non-str, or the colour
\* lookup on a truthy non-str type) or "run" (the node is appended to the
\* delta and its statement issued).
EntityOutcome(item) ==
    IF item.k # "obj" \/ "name" \notin DOMAIN item.fields THEN "skip"
    ELSE IF ~CanEncode(item.fields["name"]) THEN "raise"
    ELSE IF Truthy(GroupOf(item)) /\ GroupOf(item).k # "str" THEN "raise"
    ELSE "run"

\* A variant: an entity with an empty name is skipped.
EntityOutcomeNonEmpty(item) ==
    IF item.k # "obj" \/ "name" \notin DOMAIN item.fields THEN "skip"
    ELSE IF ~CanEncode(item.fields["name"]) THEN "raise"
    ELSE IF ~Truthy(item.fields["name"]) THEN "skip"
    ELSE IF Truthy(GroupOf(item)) /\ GroupOf(item).k # "str" THEN "raise"
    ELSE "run"

frontend_node(item) ==
    [id |-> generate_id(item.fields["name"]), name |-> item.fields["name"],
     group |-> GroupOf(item), color |-> assign_color(GroupOf(item)), val |-> 15]

\* The properties the MERGE statement writes: $id, $name, $group, $color.
NodeProps(node) ==
    [id |-> node.id, name |-> node.name, group |-> node.group, color |-> node.color]

\* item.get('relation', <the default relation word>)
RelationOf(item) == Get(item, "relation", JStr(<<"U5173U8054">>))

\* One pass of the relation loop on item.
RelationOutcome(item) ==
    IF item.k # "obj" \/ "head" \notin DOMAIN item.fields
                      \/ "tail" \notin DOMAIN item.fields THEN "skip"
    ELSE IF ~CanEncode(item.fields["head"]) \/ ~CanEncode(item.fields["tail"])
         THEN "raise"
    ELSE "run"

\* A variant: the link carries the relationship type, not the relation word.
frontend_link_Typed(item) ==
    [source |-> generate_id(item.fields["head"]),
     target |-> generate_id(item.fields["tail"]),
     relationship |-> JStr(<<"RELATED">>), width |-> 2]

\* frontend_link of the relation loop.
frontend_link(item) ==
    [source |-> generate_id(item.fields["head"]),
     target |-> generate_id(item.fields["tail"]),
     relationship |-> RelationOf(item), width |-> 2]

EmptyDelta == [nodes |-> <<>>, links |-> <<>>]

\* extraction_data.get("entities", []) and .get("relations", [])
RawNodes(data) == Get(data, "entities", JList(<<>>))
RawRelations(data) == Get(data, "relations", JList(<<>>))

\* An update_graph with no early return.
NothingToMergeNever(data) == FALSE

\* The early return of update_graph: both lists falsy.
NothingToMerge(data) == ~Truthy(RawNodes(data)) /\ ~Truthy(RawRelations(data))

\* A call of update_graph in progress is [store, delta, opened, calls, raised]:
\* opened says that the driver session was opened, calls counts the
\* statements issued to the store.
RECURSIVE NodeLoop(_, _, _)
\* The node loop from position i.
NodeLoop(c, items, i) ==
    IF i > Len(items) THEN c
    ELSE CASE EntityOutcome(items[i]) = "skip" -> NodeLoop(c, items, i + 1)
           [] EntityOutcome(items[i]) = "raise" -> [c EXCEPT !.raised = TRUE]
           [] EntityOutcome(items[i]) = "run" ->
                NodeLoop([c EXCEPT
                            !.delta.nodes = Append(@, frontend_node(items[i])),
                            !.store = MergeEntity(@, NodeProps(frontend_node(items[i]))),
                            !.calls = @ + 1],
                         items, i + 1)

RECURSIVE RelationLoop(_, _, _)
\* The relation loop from position i.
RelationLoop(c, items, i) ==
    IF i > Len(items) THEN c
    ELSE CASE RelationOutcome(items[i]) = "skip" -> RelationLoop(c, items, i + 1)
           [] RelationOutcome(items[i]) = "raise" -> [c EXCEPT !.raised = TRUE]
           [] RelationOutcome(items[i]) = "run" ->
                LET link == frontend_link(items[i])
                IN RelationLoop([c EXCEPT
                            !.delta.links = Append(@, link),
                            !.store = MergeRelated(@, link.source, link.target,
                                                   link.relationship),
                            !.calls = @ + 1],
                         items, i + 1)

\* GraphManager.update_graph run alone on store st with a store that answers
\* every statement.
update_graph(st, data) ==
    LET c0 == [store |-> st, delta |-> EmptyDelta, opened |-> FALSE, calls |-> 0,
               raised |-> FALSE]
    IN IF NothingToMerge(data) THEN c0
       ELSE IF ~Iterable(RawNodes(data)) THEN [c0 EXCEPT !.opened = TRUE, !.raised = TRUE]
       ELSE LET c1 == NodeLoop([c0 EXCEPT !.opened = TRUE], Items(RawNodes(data)), 1)
            IN IF c1.raised THEN c1
               ELSE IF ~Iterable(RawRelations(data)) THEN [c1 EXCEPT !.raised = TRUE]
               ELSE RelationLoop(c1, Items(RawRelations(data)), 1)

\* ------------------------------------------------------- extractions
\* The extraction objects the model feeds to update_graph.

Ent(name, type) == JObj([name |-> JStr(name), type |-> JStr(type)])
EntNamed(name) == JObj([name |-> JStr(name)])
Rel(head, tail, relation) ==
    JObj([head |-> JStr(head), tail |-> JStr(tail), relation |-> JStr(relation)])
Extraction(entities, relations) ==
    JObj([entities |-> JList(entities), relations |-> JList(relations)])

\* {entities:[{name:A}], relations:[{head:A, tail:B, relation:knows}]}
X_Knows == Extraction(<<EntNamed(<<"A">>)>>, <<Rel(<<"A">>, <<"B">>, <<"knows">>)>>)
\* two typed entities and the relation "director" between them
X_Director ==
    Extraction(<<Ent(<<"A">>, <<"Person">>), Ent(<<"B">>, <<"Movie">>)>>,
               <<Rel(<<"B">>, <<"A">>, <<"director">>)>>)
X_Empty == Extraction(<<>>, <<>>)
\* {} : neither key
X_NoKeys == JObj(<<>>)
\* {entities:[{name:A, type:Movie}]} : A with another type, no relations key
X_Retyped == JObj([entities |-> JList(<<Ent(<<"A">>, <<"Movie">>)>>)])
\* items lacking a field or not an object among valid ones; a relation with
\* no relation word
X_Malformed ==
    Extraction(<<JObj([type |-> JStr(<<"Person">>)]), JStr(<<"B">>), EntNamed(<<"B">>)>>,
               <<JObj([head |-> JStr(<<"A">>)]),
                 JObj([head |-> JStr(<<"B">>), tail |-> JStr(<<"B">>)])>>)
\* {entities:[{name:""}], relations:[]}
X_EmptyName == Extraction(<<EntNamed(<<>>)>>, <<>>)
\* {entities:[{name:A},{name:null},{name:B}], relations:[]}
X_NullName ==
    Extraction(<<EntNamed(<<"A">>), JObj([name |-> JNull]), EntNamed(<<"B">>)>>, <<>>)
\* {entities:[{name:A}], relations:null}
X_NullRelations == JObj([entities |-> JList(<<EntNamed(<<"A">>)>>), relations |-> JNull])
\* {entities:null, relations:null}
X_NullLists == JObj([entities |-> JNull, relations |-> JNull])
\* two names whose ids collide, and a relation between them
X_Collide ==
    Extraction(<<EntNamed(<<"e11363">>), EntNamed(<<"e91516">>)>>,
               <<Rel(<<"e11363">>, <<"e91516">>, <<"alias">>)>>)
\* AB with a type that only matches the keyword table by containment
X_Fuzzy ==
    Extraction(<<Ent(<<"A", "B">>, <<"U79D1", "U5E7B", "U7535", "U5F71">>)>>,
               <<Rel(<<"A", "B">>, <<"A">>, <<"contains">>)>>)

\* A, B and AB with six relation words on each of A->B, A->AB and B->AB:
\* 36 distinct facts.
RelationWords == <<"r1", "r2", "r3", "r4", "r5", "r6">>
X_Dense ==
    Extraction(<<EntNamed(<<"A">>), EntNamed(<<"B">>), EntNamed(<<"A", "B">>)>>,
               Concat([w \in DOMAIN RelationWords |->
                          <<Rel(<<"A">>, <<"B">>, <<RelationWords[w]>>),
                            Rel(<<"A">>, <<"A", "B">>, <<RelationWords[w]>>),
                            Rel(<<"B">>, <<"A", "B">>, <<RelationWords[w]>>)>>]))

MergeInputs ==
    {X_Knows, X_Director, X_Empty, X_NoKeys, X_Retyped, X_Malformed, X_EmptyName,
     X_NullName, X_NullRelations, X_NullLists, X_Collide, X_Fuzzy}

\* ------------------------------------------------------------ the state

VARIABLES
    session_prompts,  \* main.py: the dict session id -> prompt text
    store,            \* the graph store behind GraphManager.driver
    loop,             \* the turn whose code occupies the event-loop thread, or 0
    pc,               \* per turn: where its generator stands
    session_id,       \* per turn: think's argument
    user_prompt,      \* per turn: think's argument
    log,              \* per turn: what it did, in order (events, calls)
    keywords,         \* per turn: think's local
    graph_context,    \* per turn: think's local
    response,         \* per turn: the answer stream being iterated
    extracted_json,   \* per turn: _slow_brain_learn's local
    call,             \* per turn: the update_graph call in progress
    exc,              \* per turn: the exception caught by _slow_brain_learn
    m_calls,          \* update_graph calls made on GraphManager used alone
    s_calls           \* search_subgraph calls made on GraphManager used alone

service == <<session_prompts, loop>>
turn_vars == <<pc, session_id, user_prompt, log, keywords, graph_context, response,
               extracted_json, call, exc>>
vars == <<session_prompts, store, loop, pc, session_id, user_prompt, log,
          keywords, graph_context, response, extracted_json, call, exc, m_calls,
          s_calls>>

MaxTurns == 2

Turns == 1..MaxTurns

\* ------------------------------------------------------- the turn's log
\* A log entry is an event sent to the client or a call the turn made.

Emit(ev) == [op |-> "emit", ev |-> ev]
ModelCall(stage, request) == [op |-> "model_call", stage |-> stage, request |-> request]
ModelReturn(stage, ok) == [op |-> "model_return", stage |-> stage, ok |-> ok]
SearchCall(kws) == [op |-> "search_call", keywords |-> kws]
SearchReturn(context) == [op |-> "search_return", context |-> context]
MergeCallStart(data) == [op |-> "merge_call", data |-> data]
MergeReturn(delta) == [op |-> "merge_return", delta |-> delta]
\* A statement sent to the store: stmt is "query", "merge_entity" or
\* "merge_related"; ok says whether the store executed it.
StoreStmt(stmt, ok) == [op |-> "store", stmt |-> stmt, ok |-> ok]
\* The value json.loads returned.
Parsed(value) == [op |-> "parsed", value |-> value]

\* The event stream of turn t: the events of its log, in order.
Events(t) ==
    LET es == SelectSeq(log[t], LAMBDA e : e.op = "emit")
    IN [i \in DOMAIN es |-> es[i].ev]

Control(status) == [type |-> "control", status |-> status]
ControlPayload(status, payload) ==
    [type |-> "control", status |-> status, payload |-> payload]
\* A variant: every chunk carries the same content.
Chunk_Fixed(content) == [type |-> "chunk", content |-> <<"x">>]

\* The chunk event; its id, a fresh uuid4 prefix, is left out.
Chunk(content) == [type |-> "chunk", content |-> content]
\* The graph_update event; its timestamp is left out.
GraphUpdate(delta) == [type |-> "graph_update", action |-> "merge", data |-> delta]
FinishLearned(delta) ==
    [type |-> "control", status |-> "finish", stop_reason |-> "learned",
     summary |-> [newNodes |-> Len(delta.nodes)]]

\* The payload texts of the thinking and finish events.
RETRIEVING == <<"retrieving relations...">>
LOADED == <<"related knowledge loaded">>
ANALYSING == <<"analysing relations...">>
NO_NEW_KNOWLEDGE == <<"no new knowledge">>
SESSION_EXPIRED == <<"Session expired or invalid">>

\* ------------------------------------------------------ think: the stages

\* The order in which think runs its stages.
think_order_LearnFirst == <<"retrieve", "learn", "generate", "close">>

think_order == <<"retrieve", "generate", "learn", "close">>

StageAfter(stage) ==
    think_order[(CHOOSE i \in DOMAIN think_order : think_order[i] = stage) + 1]

\* Where a stage starts.
StageStart(stage) ==
    CASE stage = "generate" -> "gen_call"
      [] stage = "learn" -> "learn_yield"
      [] stage = "close" -> "close"

\* What becomes of an exception raised in a stage: the except clause of
\* _extract_search_keywords returns [], that of _slow_brain_learn reports an
\* error event, and nothing catches one raised by search_subgraph or by
\* _fast_brain_generate.
Handler_LearnPropagates(stage) ==
    CASE stage = "keywords" -> "swallow"
      [] OTHER -> "propagate"

\* A variant: no try/except in _extract_search_keywords.
Handler_KeywordsPropagates(stage) ==
    CASE stage = "learn" -> "report"
      [] OTHER -> "propagate"

\* A variant: a failed search is swallowed like a failed keyword extraction.
Handler_SearchSwallows(stage) ==
    CASE stage = "keywords" -> "swallow"
      [] stage = "search" -> "swallow"
      [] stage = "learn" -> "report"
      [] OTHER -> "propagate"

\* What each stage of think does with an exception raised in it: the
\* try/except of _extract_search_keywords returns [], the one of
\* _slow_brain_learn reports an error event, the others have none.
Handler(stage) ==
    CASE stage = "keywords" -> "swallow"
      [] stage = "learn" -> "report"
      [] stage = "search" -> "propagate"
      [] stage = "generate" -> "propagate"

\* --------------------------------------------- what the collaborators say
\* A model reply is [ok, content]: ok FALSE when the call raises.

Raises == [ok |-> FALSE, content |-> JNull]
Reply(content) == [ok |-> TRUE, content |-> content]

\* A message content that is JSON text of value v, or text that is no JSON.
JsonText(v) == [k |-> "json", value |-> v]
NotJson == [k |-> "text"]

\* json.loads(content): raises unless content is JSON text.
json_loads(content) ==
    IF content.k = "json" THEN [ok |-> TRUE, value |-> content.value]
    ELSE [ok |-> FALSE, value |-> JNull]

\* Replies to the keyword request: a failure, a null content, "A<U+FF0C> B,".
KeywordReplies ==
    {Raises, Reply(JNull), Reply(JStr(<<"A", "UFF0C", " ", "B", ",">>))}

\* Replies to the answer request: a failure, or a stream [frags, fail] of
\* fragment contents that ends (fail FALSE) or breaks (fail TRUE) after them.
AnswerStream(frags, fail) == [k |-> "stream", frags |-> frags, fail |-> fail]
AnswerReplies ==
    {Raises,
     Reply(AnswerStream(<<JNull, JStr(<<"x">>), JStr(<<"y">>)>>, FALSE)),
     Reply(AnswerStream(<<JStr(<<"y">>)>>, FALSE)),
     Reply(AnswerStream(<<JStr(<<"x">>)>>, TRUE))}

\* Replies to the extraction request.
LearnReplies ==
    {Raises, Reply(NotJson), Reply(JsonText(JList(<<>>))),
     Reply(JsonText(X_Knows)), Reply(JsonText(X_Director)),
     Reply(JsonText(X_NoKeys)), Reply(JsonText(X_Retyped))}

\* The session ids and the contents POSTed to /api/chat; " " is blank.
Sessions == {"s1", "s2"}
Contents == {<<"p">>, <<" ">>}

\* ------------------------------------------------------------------ text

\* A variant: no character counts as whitespace.
IsSpace_Never(tok) == FALSE

\* The whitespace str.strip() removes.
IsSpace(tok) == tok = " "

RECURSIVE Strip(_)
\* str.strip()
Strip(s) ==
    IF s = <<>> THEN s
    ELSE IF IsSpace(s[1]) THEN Strip(Tail(s))
    ELSE IF IsSpace(s[Len(s)]) THEN Strip(SubSeq(s, 1, Len(s) - 1))
    ELSE s

\* [k.strip() for k in content.replace(<U+FF0C>, ",").split(",") if k.strip()]
ParseKeywords(content) ==
    LET replaced == [i \in DOMAIN content |->
                        IF content[i] = "UFF0C" THEN "," ELSE content[i]]
        parts == Split(replaced, ",")
    IN SelectSeq([i \in DOMAIN parts |-> Strip(parts[i])], LAMBDA q : q # <<>>)

\* The return value of the except clause of _extract_search_keywords.
KeywordsOnError == <<>>

\* A variant: the context-embedding framing whatever the context.
SystemPrompt_AlwaysEmbed(context) ==
    <<"assistant.", "KG_RESULTS:">> \o context \o <<"USE_RELATIONS">>

\* system_prompt of _fast_brain_generate: the framing that embeds the
\* context, or the one that says the knowledge base holds nothing relevant.
SystemPrompt(context) ==
    IF context # <<>>
    THEN <<"assistant.", "KG_RESULTS:">> \o context \o <<"USE_RELATIONS">>
    ELSE <<"assistant.", "NO_KNOWLEDGE">>

\* A variant: the prompt also quotes the answer fragments streamed so far.
ExtractionPrompt_WithAnswers(prompt) ==
    <<"EXTRACT_TRIPLES:">> \o prompt
        \o Concat([t \in Turns |->
                      LET cs == SelectSeq(Events(t), LAMBDA ev : ev.type = "chunk")
                      IN Concat([i \in DOMAIN cs |-> cs[i].content])])
        \o <<"RETURN_JSON">>

\* The extraction prompt of _slow_brain_learn.
ExtractionPrompt(prompt) == <<"EXTRACT_TRIPLES:">> \o prompt \o <<"RETURN_JSON">>

\* The two key defaults of _slow_brain_learn on a parsed object.
\* A variant: the parsed value is passed on as it is.
WithDefaults_None(v) == v

\* `if "entities" not in extracted_json: extracted_json["entities"] = []`,
\* and the same for "relations".
WithDefaults(v) ==
    JObj([key \in DOMAIN v.fields \cup {"entities", "relations"} |->
             Get(v, key, JList(<<>>))])

\* -------------------------------------------------- the service at rest

NoCall == [delta |-> EmptyDelta, i |-> 1]
NoStream == AnswerStream(<<>>, FALSE)

InitSystem ==
    /\ session_prompts = <<>>
    /\ store = EmptyStore
    /\ loop = 0
    /\ pc = [t \in Turns |-> "idle"]
    /\ session_id = [t \in Turns |-> ""]
    /\ user_prompt = [t \in Turns |-> <<>>]
    /\ log = [t \in Turns |-> <<>>]
    /\ keywords = [t \in Turns |-> <<>>]
    /\ graph_context = [t \in Turns |-> <<>>]
    /\ response = [t \in Turns |-> NoStream]
    /\ extracted_json = [t \in Turns |-> JNull]
    /\ call = [t \in Turns |-> NoCall]
    /\ exc = [t \in Turns |-> ""]

Init ==
    /\ InitSystem
    /\ m_calls = <<>>
    /\ s_calls = <<>>

harness == <<m_calls, s_calls>>

\* ------------------------------------------------------ main.py handlers

\* POST /api/chat
process_chat(s, content) ==
    /\ loop = 0
    /\ session_prompts' =
          IF Strip(content) = <<>> THEN session_prompts
          ELSE [x \in DOMAIN session_prompts \cup {s} |->
                   IF x = s THEN content ELSE session_prompts[x]]
    /\ UNCHANGED <<store, loop, turn_vars, harness>>

\* A variant: a session with no stored prompt gets a default one.
PromptOf_Default(s) ==
    IF s \in DOMAIN session_prompts THEN JStr(session_prompts[s]) ELSE JStr(<<"p">>)

\* session_prompts.get(sessionId)
PromptOf(s) ==
    IF s \in DOMAIN session_prompts THEN JStr(session_prompts[s]) ELSE JNull

\* GET /api/stream: the response streams error_gen() or brain.think(...).
stream_updates(s) ==
    /\ loop = 0
    /\ \E t \in Turns :
          /\ pc[t] = "idle"
          /\ \A u \in Turns : u < t => pc[u] # "idle"
          /\ session_id' = [session_id EXCEPT ![t] = s]
          /\ IF ~Truthy(PromptOf(s))
             THEN /\ pc' = [pc EXCEPT ![t] = "error_gen"]
                  /\ UNCHANGED user_prompt
             ELSE /\ pc' = [pc EXCEPT ![t] = "start"]
                  /\ user_prompt' = [user_prompt EXCEPT ![t] = PromptOf(s).s]
    /\ UNCHANGED <<session_prompts, store, loop, log, keywords, graph_context,
                   response, extracted_json, call, exc, harness>>

\* -------------------------------------------------------- DualBrain.think
\* Code that runs on the event loop needs the loop thread free (loop = 0); a
\* blocking model call keeps the thread (loop = t) from its start to its
\* return; search_subgraph and update_graph run on executor threads.

Raised(stage, detail) == [op |-> "raise", stage |-> stage, detail |-> detail]

Step(t, label, entries) ==
    /\ pc' = [pc EXCEPT ![t] = label]
    /\ log' = [log EXCEPT ![t] = @ \o entries]

\* error_gen of stream_updates: the whole stream of a request with no prompt.
error_gen(t) ==
    /\ pc[t] = "error_gen" /\ loop = 0
    /\ Step(t, "ended", <<Emit(ControlPayload("error", SESSION_EXPIRED))>>)
    /\ UNCHANGED <<session_prompts, store, loop, session_id, user_prompt,
                   keywords, graph_context, response, extracted_json, call, exc,
                   harness>>

EmitStart(t) ==
    /\ pc[t] = "start" /\ loop = 0
    /\ Step(t, "retrieving", <<Emit(Control("start"))>>)
    /\ UNCHANGED <<session_prompts, store, loop, session_id, user_prompt,
                   keywords, graph_context, response, extracted_json, call, exc,
                   harness>>

EmitRetrieving(t) ==
    /\ pc[t] = "retrieving" /\ loop = 0
    /\ Step(t, "kw_call", <<Emit(ControlPayload("thinking", RETRIEVING))>>)
    /\ UNCHANGED <<session_prompts, store, loop, session_id, user_prompt,
                   keywords, graph_context, response, extracted_json, call, exc,
                   harness>>

\* _extract_search_keywords: the blocking chat.completions.create call starts.
KeywordsCall(t) ==
    /\ pc[t] = "kw_call" /\ loop = 0
    /\ loop' = t
    /\ Step(t, "kw_wait", <<ModelCall("keywords", user_prompt[t])>>)
    /\ UNCHANGED <<session_prompts, store, session_id, user_prompt,
                   keywords, graph_context, response, extracted_json, call, exc,
                   harness>>

\* _extract_search_keywords: the call returns or raises; the list is parsed.
KeywordsReturn(t, r) ==
    /\ pc[t] = "kw_wait" /\ loop = t
    /\ loop' = 0
    /\ LET done == r.ok /\ r.content.k = "str"
       IN IF done
          THEN /\ keywords' = [keywords EXCEPT ![t] = ParseKeywords(r.content.s)]
               /\ Step(t, "search", <<ModelReturn("keywords", TRUE)>>)
          ELSE IF Handler("keywords") = "swallow"
          THEN /\ keywords' = [keywords EXCEPT ![t] = KeywordsOnError]
               /\ Step(t, "search", <<ModelReturn("keywords", FALSE)>>)
          ELSE /\ UNCHANGED keywords
               /\ Step(t, "raised", <<ModelReturn("keywords", FALSE),
                                     Raised("keywords", "Exception")>>)
    /\ UNCHANGED <<session_prompts, store, session_id, user_prompt,
                   graph_context, response, extracted_json, call, exc, harness>>

\* search_subgraph on an executor thread; the query may fail.
Search(t, ok) ==
    /\ pc[t] = "search"
    /\ IF SkipsQuery(keywords[t])
       THEN /\ ok
            /\ graph_context' = [graph_context EXCEPT ![t] = <<>>]
            /\ Step(t, "loaded", <<SearchCall(keywords[t]), SearchReturn(<<>>)>>)
       ELSE IF ok
       THEN LET context == search_subgraph(store, keywords[t])
            IN /\ graph_context' = [graph_context EXCEPT ![t] = context]
               /\ Step(t, "loaded", <<SearchCall(keywords[t]), StoreStmt("query", TRUE),
                                     SearchReturn(context)>>)
       ELSE /\ UNCHANGED graph_context
            /\ Step(t, IF Handler("search") = "propagate" THEN "raised" ELSE "loaded",
                    <<SearchCall(keywords[t]), StoreStmt("query", FALSE),
                      Raised("search", "Neo4jError")>>)
    /\ UNCHANGED <<session_prompts, store, loop, session_id, user_prompt,
                   keywords, response, extracted_json, call, exc, harness>>

\* A variant: thinking(loaded) whatever the context.
AnnouncesLoaded_Always(context) == TRUE

\* `if graph_context:` of think.
AnnouncesLoaded(context) == context # <<>>

EmitLoaded(t) ==
    /\ pc[t] = "loaded" /\ loop = 0
    /\ Step(t, StageStart(StageAfter("retrieve")),
            IF AnnouncesLoaded(graph_context[t])
            THEN <<Emit(ControlPayload("thinking", LOADED))>> ELSE <<>>)
    /\ UNCHANGED <<session_prompts, store, loop, session_id, user_prompt,
                   keywords, graph_context, response, extracted_json, call, exc,
                   harness>>

\* _fast_brain_generate: the blocking streaming call starts.
AnswerCall(t) ==
    /\ pc[t] = "gen_call" /\ loop = 0
    /\ loop' = t
    /\ Step(t, "gen_wait",
            <<ModelCall("answer", [system |-> SystemPrompt(graph_context[t]),
                                   user |-> user_prompt[t]])>>)
    /\ UNCHANGED <<session_prompts, store, session_id, user_prompt,
                   keywords, graph_context, response, extracted_json, call, exc,
                   harness>>

\* _fast_brain_generate: create() returns the stream or raises.
AnswerReturn(t, r) ==
    /\ pc[t] = "gen_wait" /\ loop = t
    /\ IF r.ok
       THEN /\ response' = [response EXCEPT ![t] = r.content]
            /\ Step(t, "gen_next", <<ModelReturn("answer", TRUE)>>)
            /\ UNCHANGED loop
       ELSE /\ UNCHANGED response
            /\ loop' = 0
            /\ Step(t, IF Handler("generate") = "propagate" THEN "raised"
                       ELSE StageStart(StageAfter("generate")),
                    <<ModelReturn("answer", FALSE), Raised("generate", "APIError")>>)
    /\ UNCHANGED <<session_prompts, store, session_id, user_prompt,
                   keywords, graph_context, extracted_json, call, exc, harness>>

\* _fast_brain_generate: the for loop takes the next fragment of the stream
\* (blocking): a fragment with content is yielded as a chunk, one without is
\* passed over, the end of the stream ends the stage, a broken stream raises.
AnswerNext(t) ==
    /\ pc[t] = "gen_next" /\ loop = t
    /\ IF response[t].frags = <<>>
       THEN /\ loop' = 0
            /\ UNCHANGED response
            /\ IF response[t].fail
               THEN Step(t, IF Handler("generate") = "propagate" THEN "raised"
                            ELSE StageStart(StageAfter("generate")),
                         <<Raised("generate", "APIError")>>)
               ELSE Step(t, StageStart(StageAfter("generate")), <<>>)
       ELSE /\ response' = [response EXCEPT ![t].frags = Tail(@)]
            /\ IF Truthy(Head(response[t].frags))
               THEN /\ loop' = 0
                    /\ Step(t, "gen_resume", <<Emit(Chunk(Head(response[t].frags).s))>>)
               ELSE /\ UNCHANGED loop
                    /\ Step(t, "gen_next", <<>>)
    /\ UNCHANGED <<session_prompts, store, session_id, user_prompt,
                   keywords, graph_context, extracted_json, call, exc, harness>>

\* _fast_brain_generate: resumed after the yield and the sleep, the for loop
\* blocks on the stream again.
AnswerResume(t) ==
    /\ pc[t] = "gen_resume" /\ loop = 0
    /\ loop' = t
    /\ Step(t, "gen_next", <<>>)
    /\ UNCHANGED <<session_prompts, store, session_id, user_prompt,
                   keywords, graph_context, response, extracted_json, call, exc,
                   harness>>

\* ------------------------------------------- DualBrain._slow_brain_learn

EmitAnalysing(t) ==
    /\ pc[t] = "learn_yield" /\ loop = 0
    /\ Step(t, "learn_call", <<Emit(ControlPayload("thinking", ANALYSING))>>)
    /\ UNCHANGED <<session_prompts, store, loop, session_id, user_prompt,
                   keywords, graph_context, response, extracted_json, call, exc,
                   harness>>

\* The blocking JSON-mode call starts.
LearnCall(t) ==
    /\ pc[t] = "learn_call" /\ loop = 0
    /\ loop' = t
    /\ Step(t, "learn_wait", <<ModelCall("learn", ExtractionPrompt(user_prompt[t]))>>)
    /\ UNCHANGED <<session_prompts, store, session_id, user_prompt,
                   keywords, graph_context, response, extracted_json, call, exc,
                   harness>>

\* The exception, if any, raised between the call and the hand-over to
\* update_graph: by the call, by json.loads, or by the key defaults on a
\* parsed value that is no object; "" when there is none.
LearnFailure(r) ==
    IF ~r.ok THEN "APIError"
    ELSE IF r.content.k = "null" THEN "TypeError"
    ELSE IF ~json_loads(r.content).ok THEN "JSONDecodeError"
    ELSE IF json_loads(r.content).value.k # "obj" THEN "TypeError"
    ELSE ""

\* Where the turn goes when an exception is raised inside the try block.
LearnRaiseTo == IF Handler("learn") = "report" THEN "learn_error" ELSE "raised"

\* The call returns; the content is parsed, the keys defaulted, and
\* update_graph handed to the executor.
LearnReturn(t, r) ==
    /\ pc[t] = "learn_wait" /\ loop = t
    /\ loop' = 0
    /\ IF LearnFailure(r) # ""
       THEN /\ exc' = [exc EXCEPT ![t] = LearnFailure(r)]
            /\ Step(t, LearnRaiseTo,
                    <<ModelReturn("learn", FALSE)>>
                    \o IF Handler("learn") = "report" THEN <<>>
                       ELSE <<Raised("learn", LearnFailure(r))>>)
            /\ UNCHANGED <<extracted_json, call>>
       ELSE LET data == WithDefaults(json_loads(r.content).value)
            IN /\ extracted_json' = [extracted_json EXCEPT ![t] = data]
               /\ call' = [call EXCEPT ![t] = NoCall]
               /\ UNCHANGED exc
               /\ IF NothingToMerge(data)
                  THEN Step(t, "learn_result",
                            <<ModelReturn("learn", TRUE),
                              Parsed(json_loads(r.content).value),
                              MergeCallStart(data), MergeReturn(EmptyDelta)>>)
                  ELSE Step(t, "ug_nodes",
                            <<ModelReturn("learn", TRUE),
                              Parsed(json_loads(r.content).value),
                              MergeCallStart(data)>>)
    /\ UNCHANGED <<session_prompts, store, session_id, user_prompt,
                   keywords, graph_context, response, harness>>

\* The first position from i on whose item is not skipped (Len + 1: none).
NextActive(outcomes, i) ==
    IF \E j \in i..Len(outcomes) : outcomes[j] # "skip"
    THEN CHOOSE j \in i..Len(outcomes) :
            /\ outcomes[j] # "skip"
            /\ \A h \in i..(j - 1) : outcomes[h] = "skip"
    ELSE Len(outcomes) + 1

\* A variant: update_graph in one transaction, rolled back by the exception:
\* the nodes the call upserted, and the edges, are gone.
UgRaise_RollsBack(t, detail, entries) ==
    /\ exc' = [exc EXCEPT ![t] = detail]
    /\ Step(t, LearnRaiseTo,
            entries \o IF Handler("learn") = "report" THEN <<>>
                       ELSE <<Raised("learn", detail)>>)
    /\ store' = [nodes |-> SelectSeq(store.nodes,
                                     LAMBDA n : \A q \in DOMAIN call[t].delta.nodes :
                                                   call[t].delta.nodes[q].id # n.id),
                 rels |-> <<>>]
    /\ UNCHANGED call

\* An exception leaves update_graph and is caught by _slow_brain_learn.
UgRaise(t, detail, entries) ==
    /\ exc' = [exc EXCEPT ![t] = detail]
    /\ Step(t, LearnRaiseTo,
            entries \o IF Handler("learn") = "report" THEN <<>>
                       ELSE <<Raised("learn", detail)>>)
    /\ UNCHANGED <<store, call>>

\* update_graph on an executor thread, the node loop: up to and including
\* the next statement, which the store executes (ok) or fails.
UgNodes(t, ok) ==
    /\ pc[t] = "ug_nodes"
    /\ LET raw == RawNodes(extracted_json[t])
       IN IF ~Iterable(raw) THEN ok /\ UgRaise(t, "TypeError", <<>>)
          ELSE LET items == Items(raw)
                   j == NextActive([q \in DOMAIN items |-> EntityOutcome(items[q])], call[t].i)
               IN IF j > Len(items)
                  THEN /\ ok
                       /\ call' = [call EXCEPT ![t].i = 1]
                       /\ Step(t, "ug_rels", <<>>)
                       /\ UNCHANGED <<store, exc>>
                  ELSE IF EntityOutcome(items[j]) = "raise"
                  THEN ok /\ UgRaise(t, "AttributeError", <<>>)
                  ELSE IF ok
                  THEN /\ store' = MergeEntity(store, NodeProps(frontend_node(items[j])))
                       /\ call' = [call EXCEPT
                                     ![t].delta.nodes = Append(@, frontend_node(items[j])),
                                     ![t].i = j + 1]
                       /\ Step(t, "ug_nodes", <<StoreStmt("merge_entity", TRUE)>>)
                       /\ UNCHANGED exc
                  ELSE UgRaise(t, "Neo4jError", <<StoreStmt("merge_entity", FALSE)>>)
    /\ UNCHANGED <<session_prompts, loop, session_id, user_prompt, keywords,
                   graph_context, response, extracted_json, harness>>

\* update_graph on an executor thread, the relation loop; after it the call
\* returns the delta.
UgRels(t, ok) ==
    /\ pc[t] = "ug_rels"
    /\ LET raw == RawRelations(extracted_json[t])
       IN IF ~Iterable(raw) THEN ok /\ UgRaise(t, "TypeError", <<>>)
          ELSE LET items == Items(raw)
                   j == NextActive([q \in DOMAIN items |-> RelationOutcome(items[q])], call[t].i)
               IN IF j > Len(items)
                  THEN /\ ok
                       /\ Step(t, "learn_result", <<MergeReturn(call[t].delta)>>)
                       /\ UNCHANGED <<store, call, exc>>
                  ELSE IF RelationOutcome(items[j]) = "raise"
                  THEN ok /\ UgRaise(t, "AttributeError", <<>>)
                  ELSE IF ok
                  THEN LET link == frontend_link(items[j])
                       IN /\ store' = MergeRelated(store, link.source, link.target,
                                                   link.relationship)
                          /\ call' = [call EXCEPT
                                        ![t].delta.links = Append(@, link),
                                        ![t].i = j + 1]
                          /\ Step(t, "ug_rels", <<StoreStmt("merge_related", TRUE)>>)
                          /\ UNCHANGED exc
                  ELSE UgRaise(t, "Neo4jError", <<StoreStmt("merge_related", FALSE)>>)
    /\ UNCHANGED <<session_prompts, loop, session_id, user_prompt, keywords,
                   graph_context, response, extracted_json, harness>>

\* A variant: the delta is announced whatever it holds.
DeltaNonEmpty_Always(delta) == TRUE

\* `if frontend_data["nodes"] or frontend_data["links"]`
DeltaNonEmpty(delta) == delta.nodes # <<>> \/ delta.links # <<>>

EmitLearnResult(t) ==
    /\ pc[t] = "learn_result" /\ loop = 0
    /\ IF DeltaNonEmpty(call[t].delta)
       THEN Step(t, "learn_finish", <<Emit(GraphUpdate(call[t].delta))>>)
       ELSE Step(t, StageStart(StageAfter("learn")),
                 <<Emit(ControlPayload("finish", NO_NEW_KNOWLEDGE))>>)
    /\ UNCHANGED <<session_prompts, store, loop, session_id, user_prompt,
                   keywords, graph_context, response, extracted_json, call, exc,
                   harness>>

EmitLearned(t) ==
    /\ pc[t] = "learn_finish" /\ loop = 0
    /\ Step(t, StageStart(StageAfter("learn")), <<Emit(FinishLearned(call[t].delta))>>)
    /\ UNCHANGED <<session_prompts, store, loop, session_id, user_prompt,
                   keywords, graph_context, response, extracted_json, call, exc,
                   harness>>

\* The except clause: the error event carries str(e).
EmitLearnError(t) ==
    /\ pc[t] = "learn_error" /\ loop = 0
    /\ Step(t, StageStart(StageAfter("learn")),
            <<Emit(ControlPayload("error", <<exc[t]>>))>>)
    /\ UNCHANGED <<session_prompts, store, loop, session_id, user_prompt,
                   keywords, graph_context, response, extracted_json, call, exc,
                   harness>>

EmitClosed(t) ==
    /\ pc[t] = "close" /\ loop = 0
    /\ Step(t, "ended", <<Emit(Control("closed"))>>)
    /\ UNCHANGED <<session_prompts, store, loop, session_id, user_prompt,
                   keywords, graph_context, response, extracted_json, call, exc,
                   harness>>

\* The steps of the turns.
TurnStep ==
    \/ \E t \in Turns : error_gen(t)
    \/ \E t \in Turns : EmitStart(t)
    \/ \E t \in Turns : EmitRetrieving(t)
    \/ \E t \in Turns : KeywordsCall(t)
    \/ \E t \in Turns, r \in KeywordReplies : KeywordsReturn(t, r)
    \/ \E t \in Turns, ok \in BOOLEAN : Search(t, ok)
    \/ \E t \in Turns : EmitLoaded(t)
    \/ \E t \in Turns : AnswerCall(t)
    \/ \E t \in Turns, r \in AnswerReplies : AnswerReturn(t, r)
    \/ \E t \in Turns : AnswerNext(t)
    \/ \E t \in Turns : AnswerResume(t)
    \/ \E t \in Turns : EmitAnalysing(t)
    \/ \E t \in Turns : LearnCall(t)
    \/ \E t \in Turns, r \in LearnReplies : LearnReturn(t, r)
    \/ \E t \in Turns, ok \in BOOLEAN : UgNodes(t, ok)
    \/ \E t \in Turns, ok \in BOOLEAN : UgRels(t, ok)
    \/ \E t \in Turns : EmitLearnResult(t)
    \/ \E t \in Turns : EmitLearned(t)
    \/ \E t \in Turns : EmitLearnError(t)
    \/ \E t \in Turns : EmitClosed(t)

Next ==
    \/ \E s \in Sessions, content \in Contents : process_chat(s, content)
    \/ \E s \in Sessions : stream_updates(s)
    \/ TurnStep

Spec == Init /\ [][Next]_vars

\* ------------------------------------------------ GraphManager used alone
\* update_graph called repeatedly on one store, one call at a time; m_calls
\* records each call: its argument, the store before and after, and what the
\* call returned or did.

MaxMerges == 3

InitMerge ==
    /\ InitSystem
    /\ m_calls = <<>>
    /\ s_calls = <<>>

MergeCall(data) ==
    /\ Len(m_calls) < MaxMerges
    /\ LET c == update_graph(store, data)
       IN /\ store' = c.store
          /\ m_calls' = Append(m_calls,
                [data |-> data, before |-> store, after |-> c.store,
                 delta |-> c.delta, opened |-> c.opened, calls |-> c.calls,
                 raised |-> c.raised])
          /\ UNCHANGED <<service, turn_vars, s_calls>>

NextMerge == \E data \in MergeInputs : MergeCall(data)

SpecMerge == InitMerge /\ [][NextMerge]_vars

\* search_subgraph called on the store that update_graph calls built; s_calls
\* holds the last call: its keywords, the rows the store matched before the
\* LIMIT, and the context returned.

SearchSeeds == {X_Dense, X_Knows, X_Director, X_EmptyName}

KeywordLists ==
    {<<>>, <<<<"A">>>>, <<<<"B">>>>, <<<<"A">>, <<"B">>>>, <<<<"A", "B">>, <<"B">>>>,
     <<<<"Z">>>>, <<<<"A">>, <<"A">>>>}

MaxSearches == 2

SearchAlone(kws) ==
    /\ Len(s_calls) < MaxSearches
    /\ s_calls' = Append(s_calls,
                       [keywords |-> kws, matched |-> Len(MatchRows(store, kws)),
                        context |-> search_subgraph(store, kws)])
    /\ UNCHANGED <<service, store, turn_vars, m_calls>>

NextSearch ==
    \/ \E data \in SearchSeeds : MergeCall(data)
    \/ \E kws \in KeywordLists : SearchAlone(kws)

SpecSearch == InitMerge /\ [][NextSearch]_vars

\* The valid items of an extraction: those the loops of update_graph act on.
ValidEntities(data) ==
    IF ~Iterable(RawNodes(data)) THEN <<>>
    ELSE SelectSeq(Items(RawNodes(data)), LAMBDA item : EntityOutcome(item) = "run")
ValidRelations(data) ==
    IF ~Iterable(RawRelations(data)) THEN <<>>
    ELSE SelectSeq(Items(RawRelations(data)),
                   LAMBDA item : RelationOutcome(item) = "run")

NodesNamed(st, name) == {i \in DOMAIN st.nodes : st.nodes[i].name = name}
RelsKeyed(st, sid, tid, rel) ==
    {r \in DOMAIN st.rels : /\ st.nodes[st.rels[r].start].id = sid
                            /\ st.nodes[st.rels[r].end].id = tid
                            /\ st.rels[r].name = rel}

\* Position k of m_calls is the second of two consecutive calls that merged
\* the same extraction and both returned.
MergedTwice(k) ==
    /\ k \in DOMAIN m_calls /\ k > 1
    /\ m_calls[k].data = m_calls[k - 1].data
    /\ ~m_calls[k].raised /\ ~m_calls[k - 1].raised

\* C6: after the identical extraction has been merged twice, from whatever
\* store the first merge started on, the store holds exactly one node for each
\* entity name of the extraction and exactly one edge for each
\* (id(head), id(tail), relation) of its relations.
C6_MergeTwiceExactlyOne ==
    \A k \in DOMAIN m_calls :
        MergedTwice(k) =>
            LET d == m_calls[k].data
                st == m_calls[k].after
            IN /\ \A q \in DOMAIN ValidEntities(d) :
                     Cardinality(NodesNamed(st, ValidEntities(d)[q].fields["name"])) = 1
               /\ \A q \in DOMAIN ValidRelations(d) :
                     LET link == frontend_link(ValidRelations(d)[q])
                     IN Cardinality(RelsKeyed(st, link.source, link.target,
                                              link.relationship)) = 1

\* C8: a call of update_graph whose entities and relations lists are both
\* empty returns the empty delta, opens no session, issues no statement and
\* leaves the store as it was.
C8_EmptyExtractionNoStoreAccess ==
    \A k \in DOMAIN m_calls :
        (m_calls[k].data = X_Empty) =>
            /\ m_calls[k].delta = EmptyDelta
            /\ ~m_calls[k].opened /\ m_calls[k].calls = 0 /\ ~m_calls[k].raised
            /\ m_calls[k].after = m_calls[k].before

\* An empty extraction was merged into a store that holds nodes and edges.
C8_Witness ==
    \E k \in DOMAIN m_calls :
        /\ m_calls[k].data = X_Empty
        /\ m_calls[k].before.nodes # <<>> /\ m_calls[k].before.rels # <<>>

\* ----------------------------------------------------- reading the log

Types(t) == [i \in DOMAIN Events(t) |-> Events(t)[i].type]
IsClosed(ev) == ev.type = "control" /\ ev.status = "closed"
IsError(ev) == ev.type = "control" /\ ev.status = "error"
ClosedAt(t) == {i \in DOMAIN Events(t) : IsClosed(Events(t)[i])}
ErrorsAt(t) == {i \in DOMAIN Events(t) : IsError(Events(t)[i])}
Logged(t, entry) == \E i \in DOMAIN log[t] : log[t][i] = entry
Called(t, stage) ==
    \E i \in DOMAIN log[t] : log[t][i].op = "model_call" /\ log[t][i].stage = stage
\* The statements turn t sent to the store.
Statements(t) == SelectSeq(log[t], LAMBDA e : e.op = "store")
\* The stream of turn t is over: its generator returned or raised.
Terminated(t) == pc[t] \in {"ended", "raised"}
\* think was started for turn t.
Thinking(t) == pc[t] \notin {"idle", "error_gen"} /\ log[t] # <<>>
    /\ log[t][1] = Emit(Control("start"))

\* ---------------------------------------------------------------- claims

\* C1: in the event stream of a turn no chunk event comes after a
\* graph_update event, and no graph_update event comes after the closed event.
C1_ChunksThenGraphUpdateThenClosed ==
    \A t \in Turns : \A i, j \in DOMAIN Events(t) :
        i < j =>
            /\ ~(Types(t)[i] = "graph_update" /\ Types(t)[j] = "chunk")
            /\ ~(IsClosed(Events(t)[i]) /\ Types(t)[j] = "graph_update")

\* A finished stream that holds two chunks, a graph_update and closed.
C1_Witness ==
    \E t \in Turns :
        /\ pc[t] = "ended"
        /\ Cardinality({i \in DOMAIN Events(t) : Types(t)[i] = "chunk"}) = 2
        /\ \E i \in DOMAIN Events(t) : Types(t)[i] = "graph_update"
        /\ ClosedAt(t) # {}

\* C2: every stream that is over holds a closed event, whichever stage
\* failed, also the stream of a request for a session with no stored prompt.
C2_EveryStreamEndsWithClosed ==
    \A t \in Turns : Terminated(t) => ClosedAt(t) # {}

\* C3: the stream of a turn that is over holds the closed event exactly once,
\* as its last event.
C3_ClosedExactlyOnceAndLast ==
    \A t \in Turns :
        (Thinking(t) /\ Terminated(t)) => ClosedAt(t) = {Len(Events(t))}

\* The extraction call of turn t raised, or its content was no JSON text of
\* an object.
LearnFailed(t) == Logged(t, ModelReturn("learn", FALSE))

\* C4: a turn whose extraction call raised or whose content did not parse to
\* an object sends no statement to the store and emits no graph_update; it
\* goes to the except clause, emits one error event that carries the
\* exception text, and ends its stream with closed.
C4_ExtractionFailureReported ==
    \A t \in Turns :
        LearnFailed(t) =>
            /\ Statements(t) = SelectSeq(Statements(t), LAMBDA e : e.stmt = "query")
            /\ ~\E i \in DOMAIN log[t] : log[t][i].op = "merge_call"
            /\ \A i \in DOMAIN Events(t) : Types(t)[i] # "graph_update"
            /\ pc[t] \in {"learn_error", "close", "ended"}
            /\ exc[t] \in {"APIError", "TypeError", "JSONDecodeError"}
            /\ pc[t] = "learn_error" => ErrorsAt(t) = {}
            /\ pc[t] \in {"close", "ended"} =>
                  /\ Cardinality(ErrorsAt(t)) = 1
                  /\ \A i \in ErrorsAt(t) : Events(t)[i].payload = <<exc[t]>>
            /\ pc[t] = "ended" => ClosedAt(t) = {Len(Events(t))}
                                  /\ ErrorsAt(t) = {Len(Events(t)) - 1}

\* A turn whose extraction content was no JSON ended with error then closed
\* while the store held what another turn merged.
C4_Witness ==
    \E t \in Turns :
        /\ LearnFailed(t) /\ pc[t] = "ended" /\ exc[t] = "JSONDecodeError"
        /\ store.nodes # <<>>

\* The answer call of turn t raised, or its stream broke.
AnswerFailed(t) ==
    \E i \in DOMAIN log[t] : log[t][i].op = "raise" /\ log[t][i].stage = "generate"

\* C5: a turn whose answer stream failed, once its stream is over, has emitted
\* an error event, has run the learning stage and has emitted closed.
C5_AnswerFailureSurfacedAndTurnCompletes ==
    \A t \in Turns :
        (AnswerFailed(t) /\ Terminated(t)) =>
            /\ ErrorsAt(t) # {}
            /\ Called(t, "learn")
            /\ ClosedAt(t) # {}

\* C7: the store never holds two Entity nodes with one id, nor two RELATED
\* edges with one (sourceId, targetId, name).
C7_UniqueNodesAndEdges ==
    /\ \A i, j \in DOMAIN store.nodes :
          store.nodes[i].id = store.nodes[j].id => i = j
    /\ \A q, r \in DOMAIN store.rels :
          (/\ store.nodes[store.rels[q].start].id = store.nodes[store.rels[r].start].id
           /\ store.nodes[store.rels[q].end].id = store.nodes[store.rels[r].end].id
           /\ store.rels[q].name = store.rels[r].name) => q = r

\* Two turns are inside update_graph at once, each has executed a statement,
\* and both have merged the same entity.
C7_Witness ==
    \E t, u \in Turns :
        /\ t # u
        /\ pc[t] \in {"ug_nodes", "ug_rels"} /\ pc[u] \in {"ug_nodes", "ug_rels"}
        /\ call[t].delta.nodes # <<>> /\ call[u].delta.nodes # <<>>
        /\ call[t].delta.nodes[1].id = call[u].delta.nodes[1].id
        /\ store.rels # <<>>

\* The keyword call of turn t raised, or the parsing of its content did.
KeywordsFailed(t) == Logged(t, ModelReturn("keywords", FALSE))

\* C9: when the keyword extraction of a turn raised, nothing is raised out of
\* the stage, search_subgraph is called with the empty list and returns the
\* empty context, no query is sent to the store, and the turn goes on to the
\* answer call.
C9_KeywordFailureFailsOpen ==
    \A t \in Turns :
        KeywordsFailed(t) =>
            /\ ~\E i \in DOMAIN log[t] :
                   log[t][i].op = "raise" /\ log[t][i].stage \in {"keywords", "search"}
            /\ pc[t] = "kw_wait" \/ keywords[t] = <<>>
            /\ pc[t] # "search" =>
                  \E i \in DOMAIN log[t] :
                      /\ log[t][i] = SearchCall(<<>>)
                      /\ i < Len(log[t]) /\ log[t][i + 1] = SearchReturn(<<>>)
            /\ \A i \in DOMAIN Statements(t) : Statements(t)[i].stmt # "query"
            /\ pc[t] \notin {"search", "loaded", "gen_call"} =>
                  /\ Called(t, "answer")
                  /\ graph_context[t] = <<>>

\* A turn whose keyword extraction raised reached the answer call while the
\* store held an entity a query could have matched.
C9_Witness ==
    \E t \in Turns :
        /\ KeywordsFailed(t) /\ Called(t, "answer")
        /\ \E i \in DOMAIN store.nodes : Contains(store.nodes[i].name.s, <<"A">>)

\* C10: the context search_subgraph returns has at most 30 fact lines, no two
\* of them equal.
C10_AtMostThirtyDistinctFacts ==
    \A c \in DOMAIN s_calls :
        LET lines == FactLines(s_calls[c].context)
        IN /\ Len(lines) <= 30
           /\ \A i, j \in DOMAIN lines : lines[i] = lines[j] => i = j

\* One search matched more than 30 distinct rows and returned 30 lines;
\* another matched equal rows and returned fewer lines than rows.
C10_Witness ==
    \E c, d \in DOMAIN s_calls :
        /\ s_calls[c].matched > 30
        /\ Len(FactLines(s_calls[c].context)) = 30
        /\ s_calls[d].matched <= 30
        /\ 0 < Len(FactLines(s_calls[d].context))
        /\ Len(FactLines(s_calls[d].context)) < s_calls[d].matched

\* The context search_subgraph returned to turn t (a sequence of at most one).
Retrieved(t) ==
    LET rs == SelectSeq(log[t], LAMBDA e : e.op = "search_return")
    IN [i \in DOMAIN rs |-> rs[i].context]
\* The requests of the answer calls of turn t.
AnswerRequests(t) ==
    LET cs == SelectSeq(log[t],
                        LAMBDA e : e.op = "model_call" /\ e.stage = "answer")
    IN [i \in DOMAIN cs |-> cs[i].request]
HasToken(s, tok) == \E i \in DOMAIN s : s[i] = tok

\* C11: the system prompt of the answer call of a turn holds the "no
\* knowledge" framing and not the context-embedding framing when the context
\* search returned is empty, and holds the context-embedding framing around
\* that very context, and not the "no knowledge" framing, when it is not.
C11_FramingFollowsContext ==
    \A t \in Turns : \A i \in DOMAIN AnswerRequests(t) :
        LET system == AnswerRequests(t)[i].system
            context == Retrieved(t)[1]
        IN /\ Len(Retrieved(t)) = 1
           /\ AnswerRequests(t)[i].user = user_prompt[t]
           /\ IF context = <<>>
              THEN /\ HasToken(system, "NO_KNOWLEDGE")
                   /\ ~HasToken(system, "KG_RESULTS:")
              ELSE /\ ~HasToken(system, "NO_KNOWLEDGE")
                   /\ system = <<"assistant.", "KG_RESULTS:">> \o context
                                  \o <<"USE_RELATIONS">>

\* Two turns issued their answer calls, one with an empty context and one
\* with a context of fact lines.
C11_Witness ==
    \E t, u \in Turns :
        /\ AnswerRequests(t) # <<>> /\ Retrieved(t)[1] = <<>>
        /\ AnswerRequests(u) # <<>> /\ Retrieved(u)[1] # <<>>

\* C12: the delta a call of update_graph returns holds, in input order, one
\* node entry for each entity item the node loop acts on (whether or not the
\* store already held the entity) and one link entry for each relation item
\* the relation loop acts on, the link's relationship being the item's
\* relation; it holds nothing else.
C12_DeltaIsThisCallsItems ==
    \A k \in DOMAIN m_calls :
        ~m_calls[k].raised =>
            LET es == ValidEntities(m_calls[k].data)
                rs == ValidRelations(m_calls[k].data)
                delta == m_calls[k].delta
            IN /\ Len(delta.nodes) = Len(es)
               /\ Len(delta.links) = Len(rs)
               /\ \A q \in DOMAIN es :
                     /\ delta.nodes[q].name = es[q].fields["name"]
                     /\ delta.nodes[q].id = <<"node_", md5_8(es[q].fields["name"].s)>>
               /\ \A q \in DOMAIN rs :
                     /\ delta.links[q].source = <<"node_", md5_8(rs[q].fields["head"].s)>>
                     /\ delta.links[q].target = <<"node_", md5_8(rs[q].fields["tail"].s)>>
                     /\ "relation" \in DOMAIN rs[q].fields =>
                           delta.links[q].relationship = rs[q].fields["relation"]

\* Two entities and the relation "director" between them were merged into a
\* store that already held both and more: the delta has 2 nodes and 1 link
\* with relationship "director".
C12_Witness ==
    \E k \in DOMAIN m_calls :
        /\ m_calls[k].data = X_Director
        /\ Len(m_calls[k].before.nodes) > 2
        /\ NodesNamed(m_calls[k].before, JStr(<<"A">>)) # {}
        /\ NodesNamed(m_calls[k].before, JStr(<<"B">>)) # {}
        /\ Len(m_calls[k].delta.nodes) = 2
        /\ Len(m_calls[k].delta.links) = 1
        /\ m_calls[k].delta.links[1].relationship = JStr(<<"director">>)

\* An entity item with a usable name; a relation item with head and tail.
WellFormedEntity(item) ==
    /\ item.k = "obj" /\ "name" \in DOMAIN item.fields
    /\ item.fields["name"].k = "str" /\ item.fields["name"].s # <<>>
WellFormedRelation(item) ==
    /\ item.k = "obj" /\ {"head", "tail"} \subseteq DOMAIN item.fields
    /\ item.fields["head"].k = "str" /\ item.fields["tail"].k = "str"

\* C13: a call of update_graph on lists that hold malformed items does not
\* raise; every entity item with a usable name is in the delta and has its
\* node in the store, and every relation item with head and tail is in the
\* delta.
C13_MalformedItemsSkipped ==
    \A k \in DOMAIN m_calls :
        LET d == m_calls[k].data
        IN (RawNodes(d).k = "list" /\ RawRelations(d).k = "list") =>
              /\ ~m_calls[k].raised
              /\ \A q \in DOMAIN RawNodes(d).items :
                    LET item == RawNodes(d).items[q]
                    IN WellFormedEntity(item) =>
                          /\ \E h \in DOMAIN m_calls[k].delta.nodes :
                                m_calls[k].delta.nodes[h].name = item.fields["name"]
                          /\ \E h \in DOMAIN m_calls[k].after.nodes :
                                m_calls[k].after.nodes[h].id
                                    = generate_id(item.fields["name"])
              /\ \A q \in DOMAIN RawRelations(d).items :
                    LET item == RawRelations(d).items[q]
                    IN WellFormedRelation(item) =>
                          \E h \in DOMAIN m_calls[k].delta.links :
                             m_calls[k].delta.links[h].source
                                 = generate_id(item.fields["head"])

IsFinish(ev) == ev.type = "control" /\ ev.status = "finish"
FinishesAt(t) == {i \in DOMAIN Events(t) : IsFinish(Events(t)[i])}
GraphUpdatesAt(t) == {i \in DOMAIN Events(t) : Types(t)[i] = "graph_update"}
\* The deltas update_graph returned to turn t (a sequence of at most one).
Merged(t) ==
    LET rs == SelectSeq(log[t], LAMBDA e : e.op = "merge_return")
    IN [i \in DOMAIN rs |-> rs[i].delta]
\* Turn t entered the learning stage and left it.
LearningDone(t) ==
    /\ Logged(t, Emit(ControlPayload("thinking", <<"analysing relations...">>)))
    /\ pc[t] \in {"close", "ended"}

\* C14: a turn that left the learning stage has emitted exactly one of
\* finish and error in it: after a merge that returned a non-empty delta,
\* graph_update with that delta immediately followed by finish(learned);
\* after one that returned the empty delta, finish(no new knowledge) and no
\* graph_update; after a failure, error and neither finish nor graph_update.
\* At every moment a graph_update that is not the last event is followed by
\* finish(learned).
C14_LearningEndsWithFinishOrError ==
    \A t \in Turns :
        /\ \A i \in GraphUpdatesAt(t) :
              i < Len(Events(t)) =>
                 /\ IsFinish(Events(t)[i + 1])
                 /\ "stop_reason" \in DOMAIN Events(t)[i + 1]
        /\ (Thinking(t) /\ LearningDone(t)) =>
              /\ Cardinality(FinishesAt(t)) + Cardinality(ErrorsAt(t)) = 1
              /\ IF Merged(t) = <<>>
                 THEN /\ Cardinality(ErrorsAt(t)) = 1
                      /\ GraphUpdatesAt(t) = {}
                 ELSE IF Merged(t)[1].nodes # <<>> \/ Merged(t)[1].links # <<>>
                 THEN \E i \in GraphUpdatesAt(t) :
                         /\ GraphUpdatesAt(t) = {i}
                         /\ Events(t)[i].data = Merged(t)[1]
                         /\ FinishesAt(t) = {i + 1}
                         /\ Events(t)[i + 1].stop_reason = "learned"
                         /\ Events(t)[i + 1].summary.newNodes
                               = Len(Merged(t)[1].nodes)
                 ELSE /\ GraphUpdatesAt(t) = {}
                      /\ \A i \in FinishesAt(t) :
                            Events(t)[i] = [type |-> "control", status |-> "finish",
                                            payload |-> <<"no new knowledge">>]

\* One turn left learning with graph_update and finish(learned), the other
\* with finish(no new knowledge) after an empty delta.
C14_Witness ==
    \E t, u \in Turns :
        /\ Thinking(t) /\ LearningDone(t) /\ GraphUpdatesAt(t) # {}
        /\ Thinking(u) /\ LearningDone(u) /\ GraphUpdatesAt(u) = {}
        /\ Merged(u) # <<>> /\ FinishesAt(u) # {}

\* Turn t is inside a blocking language-model call, or inside a graph-store
\* operation.
InModelCall(t) == pc[t] \in {"kw_wait", "gen_wait", "gen_next", "learn_wait"}
InStoreCall(t) == pc[t] \in {"search", "ug_nodes", "ug_rels"}
\* The next step of turn u is the emission of an event.
EventDue(u) ==
    \/ pc[u] \in {"error_gen", "start", "retrieving", "learn_yield", "learn_result",
                  "learn_finish", "learn_error", "close"}
    \/ pc[u] = "loaded" /\ graph_context[u] # <<>>
EmitNext(u) ==
    \/ error_gen(u) \/ EmitStart(u) \/ EmitRetrieving(u) \/ EmitLoaded(u)
    \/ EmitAnalysing(u) \/ EmitLearnResult(u) \/ EmitLearned(u)
    \/ EmitLearnError(u) \/ EmitClosed(u)

\* C15: while one turn is inside a language-model call or a graph-store
\* operation, another turn whose next step is the emission of an event can
\* take that step.
C15_NoCallStallsAnotherTurn ==
    \A t, u \in Turns :
        (t # u /\ (InModelCall(t) \/ InStoreCall(t)) /\ EventDue(u)) =>
            ENABLED EmitNext(u)

IsCall(e, stage) == e.op = "model_call" /\ e.stage = stage
IsReturn(e, stage) == e.op = "model_return" /\ e.stage = stage
\* Positions in the log of turn t.
CallsAt(t, stage) == {i \in DOMAIN log[t] : IsCall(log[t][i], stage)}
ReturnsAt(t, stage) == {i \in DOMAIN log[t] : IsReturn(log[t][i], stage)}
OpsAt(t, op) == {i \in DOMAIN log[t] : log[t][i].op = op}
EmitsAt(t, type) ==
    {i \in DOMAIN log[t] : log[t][i].op = "emit" /\ log[t][i].ev.type = type}
\* Every position of A comes after some position of B.
AllAfterSome(A, B) == \A i \in A : \E j \in B : j < i

\* C16: in the log of a turn the keyword call has returned before
\* search_subgraph is called, search_subgraph has returned before the answer
\* call is issued, no chunk is emitted after the extraction call was issued,
\* and update_graph has returned before graph_update is emitted; a model call
\* is directly followed by its return, and between the call of a graph
\* operation and its return lie only the statements it sends to the store.
C16_StagesSequential ==
    \A t \in Turns :
        LET s_call == OpsAt(t, "search_call")
            s_ret == OpsAt(t, "search_return")
            m_call == OpsAt(t, "merge_call")
            m_ret == OpsAt(t, "merge_return")
        IN /\ AllAfterSome(s_call, ReturnsAt(t, "keywords"))
           /\ AllAfterSome(CallsAt(t, "answer"), s_ret)
           /\ \A i \in EmitsAt(t, "chunk") :
                 /\ \E j \in CallsAt(t, "answer") : j < i
                 /\ \A j \in CallsAt(t, "learn") : i < j
           /\ AllAfterSome(m_call, CallsAt(t, "learn"))
           /\ AllAfterSome(EmitsAt(t, "graph_update"), m_ret)
           /\ \A i \in DOMAIN log[t] :
                 /\ (log[t][i].op = "model_call" /\ i < Len(log[t])) =>
                        IsReturn(log[t][i + 1], log[t][i].stage)
                 /\ (log[t][i].op = "store") =>
                        \/ \E j \in s_call : j < i /\ \A h \in s_ret : i < h
                        \/ \E j \in m_call : j < i /\ \A h \in m_ret : i < h

\* A finished turn that ran every stage: keywords, a query, two chunks, a
\* merge of two statements or more, a graph_update.
C16_Witness ==
    \E t \in Turns :
        /\ pc[t] = "ended"
        /\ keywords[t] # <<>>
        /\ Logged(t, StoreStmt("query", TRUE))
        /\ Cardinality(EmitsAt(t, "chunk")) = 2
        /\ Len(SelectSeq(Statements(t), LAMBDA e : e.stmt # "query")) >= 2
        /\ EmitsAt(t, "graph_update") # {}

\* The contents of the chunk events of turn t, in the order of emission.
ChunkContents(t) ==
    LET cs == SelectSeq(Events(t), LAMBDA ev : ev.type = "chunk")
    IN [i \in DOMAIN cs |-> cs[i].content]
\* The contents of the fragments of a stream that carry content, in order.
Produced(frags) ==
    LET fs == SelectSeq(frags, Truthy) IN [i \in DOMAIN fs |-> fs[i].s]

\* C17: the chunks a turn has emitted, followed by the fragments with content
\* still to come from its stream, are the fragments with content of the
\* stream the model produced, in its order; and between two chunk events of
\* a turn there are only chunk events.
C17_ChunksInOrderAndContiguous ==
    \A t \in Turns :
        /\ IF Logged(t, ModelReturn("answer", TRUE))
           THEN \E r \in AnswerReplies :
                   /\ r.ok
                   /\ Produced(r.content.frags)
                         = ChunkContents(t) \o Produced(response[t].frags)
           ELSE ChunkContents(t) = <<>>
        /\ \A i, j, k \in DOMAIN Events(t) :
              (i < j /\ j < k /\ Types(t)[i] = "chunk" /\ Types(t)[k] = "chunk") =>
                  Types(t)[j] = "chunk"

\* A turn forwarded the fragments x and y, after one without content, and
\* went on to emit further events.
C17_Witness ==
    \E t \in Turns :
        /\ ChunkContents(t) = <<<<"x">>, <<"y">>>>
        /\ pc[t] = "ended"

\* think was started for turn t: stream_updates found a prompt for it.
ThinkStarted(t) == user_prompt[t] # <<>>
IsLoaded(ev) ==
    ev = [type |-> "control", status |-> "thinking",
          payload |-> <<"related knowledge loaded">>]
LoadedAt(t) == {i \in DOMAIN log[t] : log[t][i].op = "emit" /\ IsLoaded(log[t][i].ev)}

\* C18: the first event of a turn of think is start and the second is
\* thinking(retrieving), both emitted before the keyword call; thinking(loaded)
\* is emitted at most once, only when search returned a non-empty context,
\* and always then before the answer call; it comes after the return of the
\* search and before every chunk.
C18_StartThinkingLoaded ==
    \A t \in Turns :
        ThinkStarted(t) =>
            /\ Len(Events(t)) >= 1 =>
                  Events(t)[1] = [type |-> "control", status |-> "start"]
            /\ Len(Events(t)) >= 2 =>
                  Events(t)[2] = [type |-> "control", status |-> "thinking",
                                  payload |-> <<"retrieving relations...">>]
            /\ \A i \in CallsAt(t, "keywords") : i = 3
            /\ Cardinality(LoadedAt(t)) <= 1
            /\ LoadedAt(t) # {} => Retrieved(t) # <<>> /\ Retrieved(t)[1] # <<>>
            /\ (CallsAt(t, "answer") # {} /\ Retrieved(t)[1] # <<>>) => LoadedAt(t) # {}
            /\ \A i \in LoadedAt(t) :
                  /\ \E j \in OpsAt(t, "search_return") : j < i
                  /\ \A j \in CallsAt(t, "answer") \cup EmitsAt(t, "chunk") : i < j

\* One turn emitted thinking(loaded) and then a chunk; the other reached its
\* answer call with an empty context and emitted no thinking(loaded).
C18_Witness ==
    \E t, u \in Turns :
        /\ LoadedAt(t) # {} /\ EmitsAt(t, "chunk") # {}
        /\ ThinkStarted(u) /\ EmitsAt(u, "chunk") # {} /\ LoadedAt(u) = {}
        /\ Logged(u, StoreStmt("query", TRUE))

\* The query of the search of turn t failed.
SearchFailed(t) == Logged(t, StoreStmt("query", FALSE))

\* C19: when the query of search_subgraph fails in a turn, the exception
\* leaves think: it is the last thing the turn does, the stream holds start
\* and thinking(retrieving) and nothing else, no answer or extraction call is
\* issued, and the turn sends no merge statement to the store.
C19_SearchFailureIsFatal ==
    \A t \in Turns :
        SearchFailed(t) =>
            /\ pc[t] = "raised"
            /\ log[t][Len(log[t])] = Raised("search", "Neo4jError")
            /\ Len(Events(t)) = 2
            /\ EmitsAt(t, "chunk") = {}
            /\ CallsAt(t, "answer") = {} /\ CallsAt(t, "learn") = {}
            /\ OpsAt(t, "merge_call") = {}
            /\ Statements(t) = <<StoreStmt("query", FALSE)>>

\* The search of one turn failed while the other turn went on and merged
\* into the store.
C19_Witness ==
    \E t, u \in Turns :
        /\ SearchFailed(t) /\ keywords[t] # <<>>
        /\ pc[u] = "ended" /\ EmitsAt(u, "graph_update") # {}
        /\ store.nodes # <<>>

\* C20: update_graph neither writes to the store nor appends to the delta an
\* entity item whose name is the empty string: no delta holds a node with the
\* empty name, and no call leaves in the store a node with the empty name
\* that was not there before.
C20_EmptyNameNotUpserted ==
    \A k \in DOMAIN m_calls :
        /\ \A q \in DOMAIN m_calls[k].delta.nodes :
              m_calls[k].delta.nodes[q].name # JStr(<<>>)
        /\ NodesNamed(m_calls[k].before, JStr(<<>>)) = {} =>
              NodesNamed(m_calls[k].after, JStr(<<>>)) = {}

\* The requests of the extraction calls of turn t, and the values json.loads
\* returned to it.
LearnRequests(t) ==
    LET cs == SelectSeq(log[t], LAMBDA e : IsCall(e, "learn"))
    IN [i \in DOMAIN cs |-> cs[i].request]
ParsedBy(t) ==
    LET ps == SelectSeq(log[t], LAMBDA e : e.op = "parsed")
    IN [i \in DOMAIN ps |-> ps[i].value]
\* Turns t and u ran on the same prompt, got the same extraction and both
\* had update_graph return.
SameLearning(t, u) ==
    /\ t # u /\ user_prompt[t] = user_prompt[u]
    /\ ParsedBy(t) # <<>> /\ ParsedBy(t) = ParsedBy(u)
    /\ Merged(t) # <<>> /\ Merged(u) # <<>>

\* C21: the extraction request of a turn holds the user's prompt and nothing
\* of the answer; two turns with the same prompt and the same extraction
\* response issue the same extraction request and get the same delta,
\* whatever fragments their answers streamed, and the store they leave is the
\* one a merge of that extraction alone produces.
C21_LearningIgnoresTheAnswer ==
    /\ \A t \in Turns : \A i \in DOMAIN LearnRequests(t) :
          LearnRequests(t)[i] = <<"EXTRACT_TRIPLES:">> \o user_prompt[t] \o <<"RETURN_JSON">>
    /\ \A t, u \in Turns :
          SameLearning(t, u) =>
             /\ LearnRequests(t) = LearnRequests(u)
             /\ Merged(t) = Merged(u)
             /\ (\A w \in Turns \ {t, u} : OpsAt(w, "merge_call") = {}) =>
                   store = update_graph(EmptyStore, WithDefaults(ParsedBy(t)[1])).store

\* Two turns with the same prompt and the same extraction streamed different
\* answers and both merged a non-empty delta.
C21_Witness ==
    \E t, u \in Turns :
        /\ SameLearning(t, u)
        /\ ChunkContents(t) = <<<<"x">>, <<"y">>>> /\ ChunkContents(u) = <<<<"y">>>>
        /\ Merged(t)[1].links # <<>>
        /\ pc[t] = "ended" /\ pc[u] = "ended"

\* C22: when json.loads returned an object, update_graph is called with that
\* object plus an empty list under each of the keys entities and relations
\* it lacked, and the turn raises nothing but a failure of the store; when it
\* lacked both, update_graph returns the empty delta at once, the turn sends
\* no merge statement, and it leaves learning with finish(no new knowledge)
\* and no error.
C22_MissingKeysDefaultToEmpty ==
    \A t \in Turns : \A i \in OpsAt(t, "parsed") :
        LET v == log[t][i].value
            d == log[t][i + 1].data
        IN /\ log[t][i + 1].op = "merge_call"
           /\ DOMAIN d.fields = DOMAIN v.fields \cup {"entities", "relations"}
           /\ \A key \in DOMAIN d.fields :
                 d.fields[key] = IF key \in DOMAIN v.fields THEN v.fields[key]
                                 ELSE [k |-> "list", items |-> <<>>]
           /\ exc[t] \in {"", "Neo4jError"}
           /\ (DOMAIN v.fields \cap {"entities", "relations"} = {}) =>
                 /\ log[t][i + 2] = MergeReturn([nodes |-> <<>>, links |-> <<>>])
                 /\ \A q \in DOMAIN Statements(t) : Statements(t)[q].stmt = "query"
                 /\ ErrorsAt(t) = {} /\ GraphUpdatesAt(t) = {}
                 /\ LearningDone(t) =>
                       \E q \in FinishesAt(t) :
                          Events(t)[q].payload = <<"no new knowledge">>

\* One turn parsed {} and left learning with finish(no new knowledge); the
\* other parsed an object with entities only and announced its delta.
C22_Witness ==
    \E t, u \in Turns :
        /\ ParsedBy(t) = <<X_NoKeys>> /\ LearningDone(t) /\ FinishesAt(t) # {}
        /\ ParsedBy(u) = <<X_Retyped>> /\ LearningDone(u) /\ GraphUpdatesAt(u) # {}

\* The upserts turn t has executed: the nodes of its delta so far.
Upserted(t) == call[t].delta.nodes

\* C23: every node of the store has the name, group and color of one upsert
\* some turn executed for its id; its color is the one derived from its group
\* and its id is the id of its name.
C23_AttributesFromOneUpsert ==
    \A i \in DOMAIN store.nodes :
        LET n == store.nodes[i]
        IN /\ n.color = assign_color(n.group)
           /\ n.id = generate_id(n.name)
           /\ \E t \in Turns : \E q \in DOMAIN Upserted(t) :
                 /\ Upserted(t)[q].id = n.id
                 /\ Upserted(t)[q].name = n.name
                 /\ Upserted(t)[q].group = n.group
                 /\ Upserted(t)[q].color = n.color

\* Two turns are inside update_graph at once and have upserted the same name
\* with different types.
C23_Witness ==
    \E t, u \in Turns :
        /\ pc[t] \in {"ug_nodes", "ug_rels"} /\ pc[u] \in {"ug_nodes", "ug_rels"}
        /\ \E q \in DOMAIN Upserted(t), r \in DOMAIN Upserted(u) :
              /\ Upserted(t)[q].name = Upserted(u)[r].name
              /\ Upserted(t)[q].group # Upserted(u)[r].group
              /\ Upserted(t)[q].color # Upserted(u)[r].color

\* C24: when a turn has emitted graph_update, every node its delta lists is
\* in the store and every link its delta lists is an edge of the store with
\* the same (source, target, relationship).
C24_DeltaLinksAreStoreEdges ==
    \A t \in Turns : \A i \in GraphUpdatesAt(t) :
        LET delta == Events(t)[i].data
        IN /\ \A q \in DOMAIN delta.nodes : MatchId(store, delta.nodes[q].id) # {}
           /\ \A q \in DOMAIN delta.links :
                 RelsKeyed(store, delta.links[q].source, delta.links[q].target,
                           delta.links[q].relationship) # {}

\* Turn t emitted the error event of the learning stage.
LearningError(t) == ThinkStarted(t) /\ ErrorsAt(t) # {}
\* The merge statements turn t sent to the store.
MergeStatements(t) == SelectSeq(Statements(t), LAMBDA e : e.stmt # "query")
\* No turn but t called update_graph.
OnlyMerger(t) == \A u \in Turns \ {t} : OpsAt(u, "merge_call") = {}

NoPromptRequest(t) == pc[t] # "idle" /\ session_id[t] \notin DOMAIN session_prompts

\* C26: a stream requested for a session with no stored prompt is the one
\* error event "Session expired or invalid" and then over; think is not
\* started for it: it has no prompt, issues no model call and no graph
\* operation.
C26_NoPromptStreamIsOneError ==
    \A t \in Turns :
        NoPromptRequest(t) =>
            /\ pc[t] \in {"error_gen", "ended"}
            /\ user_prompt[t] = <<>>
            /\ log[t] = IF pc[t] = "error_gen" THEN <<>>
                        ELSE << [op |-> "emit",
                                 ev |-> [type |-> "control", status |-> "error",
                                         payload |-> <<"Session expired or invalid">>]] >>
            /\ OpsAt(t, "model_call") = {} /\ OpsAt(t, "store") = {}
            /\ OpsAt(t, "search_call") = {} /\ OpsAt(t, "merge_call") = {}

\* The stream requested for a session with no prompt is over with its one
\* event, while the turn of the other session, which has one, is streaming.
C26_Witness ==
    \E t, u \in Turns :
        /\ NoPromptRequest(t) /\ pc[t] = "ended" /\ Len(log[t]) = 1
        /\ ThinkStarted(u) /\ session_id[u] # session_id[t]
        /\ EmitsAt(u, "chunk") # {}

\* ------------------------------------------------ the request handlers
\* POST /api/chat and GET /api/stream in every interleaving, with two
\* different prompts, a blank and an empty content; each turn is followed up
\* to the return of its keyword call.
ServiceContents == {<<"p">>, <<"q">>, <<" ">>, <<>>}

NextService ==
    \/ \E s \in Sessions, content \in ServiceContents : process_chat(s, content)
    \/ \E s \in Sessions : stream_updates(s)
    \/ \E t \in Turns : error_gen(t)
    \/ \E t \in Turns : EmitStart(t)
    \/ \E t \in Turns : EmitRetrieving(t)
    \/ \E t \in Turns : KeywordsCall(t)
    \/ \E t \in Turns, r \in KeywordReplies : KeywordsReturn(t, r)

SpecService == Init /\ [][NextService]_vars

\* C27: in every step, a GET for session s leaves session_prompts as it is
\* and starts a turn on the prompt stored for s at that moment, or the error
\* stream if there is none; session_prompts changes only by storing a
\* non-blank content under one session id, the latest content replacing the
\* earlier one; and a turn keeps the prompt it was started on.
C27_GetRunsLatestAcceptedPost ==
    [][/\ \A t \in Turns :
             (pc[t] = "idle" /\ pc'[t] # "idle") =>
                 /\ session_prompts' = session_prompts
                 /\ IF session_id'[t] \in DOMAIN session_prompts
                    THEN /\ pc'[t] = "start"
                         /\ user_prompt'[t] = session_prompts[session_id'[t]]
                    ELSE pc'[t] = "error_gen" /\ user_prompt'[t] = <<>>
       /\ session_prompts' # session_prompts =>
             /\ \E s \in Sessions :
                   /\ DOMAIN session_prompts' = DOMAIN session_prompts \cup {s}
                   /\ \E i \in DOMAIN session_prompts'[s] : session_prompts'[s][i] # " "
                   /\ \A x \in DOMAIN session_prompts \ {s} :
                         session_prompts'[x] = session_prompts[x]
             /\ pc' = pc /\ user_prompt' = user_prompt /\ session_id' = session_id
       /\ \A t \in Turns :
             pc[t] # "idle" =>
                 user_prompt'[t] = user_prompt[t] /\ session_id'[t] = session_id[t]
      ]_vars

\* Two turns of one session: the first started on p, the second, after a POST
\* of q, on q, which is still the stored prompt.
C27_Witness ==
    \E t, u \in Turns :
        /\ t # u /\ session_id[t] = session_id[u]
        /\ user_prompt[t] = <<"p">> /\ user_prompt[u] = <<"q">>
        /\ session_prompts[session_id[u]] = <<"q">>
        /\ CallsAt(u, "keywords") # {}
====
